---- MODULE Spec2Model ----
(***************************************************************************)
(* VoiceFlow AI: the transaction-extraction pipeline (AIService,           *)
(* SeaLionService and its cache) and the POST /api/voice/process handler.  *)
(*                                                                         *)
(* Conventions                                                             *)
(*  - A JavaScript property that may be missing is a sequence of length at *)
(*    most one: <<>> is "absent" (undefined / null), <<v>> is the value v. *)
(*  - Money amounts are integers counting hundredths (1 == 0.01), so the   *)
(*    validator's epsilon 0.01 is the integer 1 and 37.5 is 3750.          *)
(*  - Confidence values are integers counting hundredths (85 == 0.85).     *)
(***************************************************************************)
EXTENDS Integers, Sequences, FiniteSets, TLC

VARIABLES
    apiKey,      \* AIService: process.env.OPENAI_API_KEY is set
    language,    \* AIService.processTransaction: the language argument
    ptPc,        \* AIService.processTransaction: where the call stands
    attempt,     \* callOpenAIWithRetry: the loop variable
    attemptLog,  \* callOpenAIWithRetry: outcome of every provider call, in order
    waits,       \* callOpenAIWithRetry: every backoff delay started (seconds)
    retryOut,    \* callOpenAIWithRetry: how the invocation settled
    parsed,      \* processTransaction: JSON.parse(result), when it succeeded
    ptOut        \* processTransaction: how the promise settled

aiVars == <<apiKey, language, ptPc, attempt, attemptLog, waits, retryOut, parsed, ptOut>>

VARIABLES
    hasAudio,    \* POST /api/voice/process: req.file is present
    rPc,         \* the handler: where it stands
    transTimer,  \* the transcription timeout timer
    procTimer,   \* the processing timeout timer
    stt,         \* how the speech-to-text request of transcribeAudio settled
    transcript,  \* the handler's `transcription`
    responses,   \* every response sent for the request, in order
    apiStats     \* the apiStats counters

routeVars == <<hasAudio, rPc, transTimer, procTimer, stt, transcript, responses, apiStats>>

VARIABLES
    now,         \* SeaLionService: Date.now(), in ticks
    cache,       \* SeaLionService.cache: key -> [data, timestamp]
    calls,       \* the processVoiceTransaction calls in flight, by call slot
    nInvoked,    \* how many calls were made so far
    lastDone,    \* the call that settled in the latest step (IdleCall if none did)
    lastStore,   \* history: key -> the last entry setCache wrote under it
    returnsLog   \* history: the results calls returned, with their times

cacheVars == <<now, cache, calls, nInvoked, lastDone, lastStore, returnsLog>>

VARIABLES
    invTd,       \* InvoiceService: the TransactionData handed to generateInvoice
    invBt,       \* generateInvoice: the businessType argument
    invToday,    \* the calendar date of new Date()
    invNow,      \* Date.now(), in milliseconds
    invPending,  \* the generateInvoice calls awaiting QRCode.toDataURL, by slot
    invDone,     \* the call that returned in the latest step (InvIdle if none did)
    issued       \* every invoice number generated so far, with its draws

invVars == <<invTd, invBt, invToday, invNow, invPending, invDone, issued>>

VARIABLES
    rlNow,       \* the rate limiter's Date.now(), in ticks
    rlStore,     \* rlStore: key -> the timestamps kept for the key
    rlHistory,   \* history: key -> every request seen for the key, in order
    rlLast       \* the request handled in the latest step and what became of it

rlVars == <<rlNow, rlStore, rlHistory, rlLast>>

vars == <<aiVars, routeVars, cacheVars, invVars, rlVars>>

(***************************************************************************)
(* Bounds of the model.                                                    *)
(***************************************************************************)
MaxItems == 2
\* the clock of the cache model runs from 0 to MaxTime
MaxTime == 3
\* processVoiceTransaction calls made in one behaviour
MaxCalls == 3

(***************************************************************************)
(* Optional values.                                                        *)
(***************************************************************************)
Absent == <<>>
Some(v) == <<v>>
Has(x) == x /= <<>>
Val(x) == x[1]

\* JavaScript `x || d` for a number that may be missing: undefined, null and 0
\* are falsy.
OrNum(x, d) == IF Has(x) /\ Val(x) /= 0 THEN Val(x) ELSE d

\* JavaScript `x || d` for a string (or object) that may be missing; the empty
\* string is falsy too.
OrStr(x, d) == IF Has(x) /\ Val(x) /= "" THEN Val(x) ELSE d

(***************************************************************************)
(* Languages and currencies.                                               *)
(***************************************************************************)
Languages == {"en", "id", "th", "vi", "tl"}

getCurrencyForLanguage(lang) ==
    CASE lang = "id" -> "IDR"
      [] lang = "th" -> "THB"
      [] lang = "vi" -> "VND"
      [] lang = "tl" -> "PHP"
      [] lang = "en" -> "USD"
      [] OTHER -> "USD"

(***************************************************************************)
(* The mock records of AIService.getMockTransactionData. The Thai item     *)
(* names are written in Latin letters.                                     *)
(***************************************************************************)
Item(n, q, u, t) == [name |-> n, quantity |-> q, unitPrice |-> u, total |-> t]

mockData ==
    [id |-> [items |-> << Item("Ganti Oli", 1, 15000000, 15000000),
                          Item("Kampas Rem", 1, 20000000, 20000000) >>,
             customer |-> Some([name |-> Some("Pak Budi"), contact |-> Absent]),
             total |-> 35000000,
             currency |-> "IDR",
             paymentTerms |-> "later",
             dueDate |-> Some("next week"),
             businessType |-> "repair shop",
             language |-> "id",
             metadata |-> [confidence |-> Some(92),
                           extractedEntities |-> Some(<<"customer", "services", "amount", "payment_terms">>)]],
     th |-> [items |-> << Item("pad thai", 3, 6000, 18000),
                          Item("som tam", 2, 3500, 7000) >>,
             customer |-> Absent,
             total |-> 25000,
             currency |-> "THB",
             paymentTerms |-> "immediate",
             dueDate |-> Absent,
             businessType |-> "street food",
             language |-> "th",
             metadata |-> [confidence |-> Some(95),
                           extractedEntities |-> Some(<<"food_items", "quantity", "amount">>)]],
     en |-> [items |-> << Item("Shirts", 3, 2500, 7500),
                          Item("Pants", 2, 3750, 7500) >>,
             customer |-> Absent,
             total |-> 15000,
             currency |-> "USD",
             paymentTerms |-> "later",
             dueDate |-> Some("next week"),
             businessType |-> "retail",
             language |-> "en",
             metadata |-> [confidence |-> Some(90),
                           extractedEntities |-> Some(<<"items", "quantity", "amount", "payment_terms">>)]]]

\* mockData[language] || mockData['en']
getMockTransactionData(lang) ==
    IF lang \in DOMAIN mockData THEN mockData[lang] ELSE mockData["en"]

(***************************************************************************)
(* The parsed provider output: what JSON.parse(result) can yield.          *)
(* The completion is requested with response_format json_object, so a      *)
(* completion that parses is a JSON object; nothing constrains its fields. *)
(*   itemsKind  "absent" (no items key), "array", or "notArray" (a scalar  *)
(*              or object where the array should be)                       *)
(*   a key of metadata is KeyMissing, or Key(x) with x the optional value  *)
(*   (Key(Absent) is an explicit null).                                    *)
(* quantity and unitPrice are numbers, as the interface declares.          *)
(***************************************************************************)
KeyMissing == [key |-> FALSE, v |-> Absent]
Key(x) == [key |-> TRUE, v |-> x]

Quantities == {1, 2}
UnitPrices == {0, 1}
ItemTotals == {Absent, Some(0), Some(1), Some(3)}
RawItems == [name : {"a"}, quantity : Quantities, unitPrice : UnitPrices, total : ItemTotals]
ItemLists == UNION {[1..n -> RawItems] : n \in 0..MaxItems}
ReportedTotals == {Absent, Some(0), Some(2), Some(3)}

SampleCustomer == [name |-> Some("Ann"), contact |-> Absent]
EmptyCustomer == [name |-> Absent, contact |-> Absent]

RawMetadatas ==
    {Absent} \cup
    {Some([confidence |-> c, extractedEntities |-> e]) :
        c \in {KeyMissing, Key(Absent), Key(Some(0)), Key(Some(95))},
        e \in {KeyMissing, Key(Absent), Key(Some(<<"amount">>))}}

FieldsAbsent ==
    [customer |-> Absent, currency |-> Absent, paymentTerms |-> Absent,
     businessType |-> Absent, dueDate |-> Absent, metadata |-> Absent]

FieldsFull ==
    [customer : {Absent, Some(SampleCustomer)},
     currency : {Absent, Some(""), Some("THB")},
     paymentTerms : {Absent, Some("later")},
     businessType : {Absent, Some("retail")},
     dueDate : {Absent, Some("next week")},
     metadata : RawMetadatas]

MkRaw(kind, its, tot, f) ==
    [itemsKind |-> kind, items |-> its, total |-> tot,
     customer |-> f.customer, currency |-> f.currency,
     paymentTerms |-> f.paymentTerms, businessType |-> f.businessType,
     dueDate |-> f.dueDate, metadata |-> f.metadata]

SampleItems == << [name |-> "a", quantity |-> 2, unitPrice |-> 1, total |-> Absent] >>

\* Every item list and reported total with the other fields missing, and every
\* combination of the other fields with a few item lists.
RawRecords ==
    {MkRaw("array", its, tot, FieldsAbsent) : its \in ItemLists, tot \in ReportedTotals}
    \cup
    {MkRaw(k[1], k[2], tot, f) :
        k \in {<<"absent", <<>> >>, <<"notArray", <<>> >>, <<"array", SampleItems>>},
        tot \in {Absent, Some(3)},
        f \in FieldsFull}

(***************************************************************************)
(* AIService.validateAndEnhanceTransactionData                             *)
(***************************************************************************)
\* enhanced.items.map(...) raises a TypeError when items is not an array.
ValidatorThrows(data) == data.itemsKind = "notArray"

RepairItemTotalAlways(item) == item.quantity * item.unitPrice

RepairItemTotalNever(item) == OrNum(item.total, 0)

\* item.total || (item.quantity * item.unitPrice)
RepairItemTotal(item) == OrNum(item.total, item.quantity * item.unitPrice)

RepairItem(item) ==
    [name |-> item.name, quantity |-> item.quantity, unitPrice |-> item.unitPrice,
     total |-> RepairItemTotal(item)]

RECURSIVE SumTotals(_)
\* items.reduce((sum, item) => sum + item.total, 0)
SumTotals(items) ==
    IF items = <<>> THEN 0
    ELSE items[1].total + SumTotals(Tail(items))

Abs(x) == IF x < 0 THEN -x ELSE x

NeedsRecalcWrongOperand(total, calculatedTotal) ==
    Abs(total - calculatedTotal) > 1 /\ total > 0

\* Math.abs(enhanced.total - calculatedTotal) > 0.01 && calculatedTotal > 0
NeedsRecalc(total, calculatedTotal) ==
    Abs(total - calculatedTotal) > 1 /\ calculatedTotal > 0

\* One key of the metadata literal: `d` (the defaulted value) unless the
\* spread ...data.metadata carries the key, which then overrides it.
MetaField(md, field, d) ==
    IF Has(md) /\ Val(md)[field].key THEN Val(md)[field].v ELSE Some(d)

DefaultConfidence == 85

enhanceMetadata(md) ==
    [confidence |->
        MetaField(md, "confidence",
            OrNum(IF Has(md) THEN Val(md).confidence.v ELSE Absent, DefaultConfidence)),
     extractedEntities |->
        MetaField(md, "extractedEntities",
            IF Has(md) /\ Has(Val(md).extractedEntities.v)
            THEN Val(Val(md).extractedEntities.v) ELSE <<>>)]

validateAndEnhanceTransactionData(data, lang) ==
    LET items == [i \in 1..Len(data.items) |-> RepairItem(data.items[i])]
        reported == OrNum(data.total, 0)
        calculatedTotal == SumTotals(items)
    IN  [items |-> items,
         customer |-> Some(IF Has(data.customer) THEN Val(data.customer) ELSE EmptyCustomer),
         total |-> IF NeedsRecalc(reported, calculatedTotal) THEN calculatedTotal ELSE reported,
         currency |-> OrStr(data.currency, getCurrencyForLanguage(lang)),
         paymentTerms |-> OrStr(data.paymentTerms, "immediate"),
         businessType |-> OrStr(data.businessType, "general"),
         language |-> lang,
         dueDate |-> data.dueDate,
         metadata |-> enhanceMetadata(data.metadata)]

(***************************************************************************)
(* How an asynchronous call settled.                                       *)
(*   via    which return statement produced the data                       *)
(*   err    the attempt whose provider error is carried (0: none)          *)
(***************************************************************************)
Pending == [kind |-> "pending", data |-> Absent, via |-> "", err |-> 0]
Returned(d, via) == [kind |-> "returned", data |-> Some(d), via |-> via, err |-> 0]
Thrown(via, e) == [kind |-> "thrown", data |-> Absent, via |-> via, err |-> e]

(***************************************************************************)
(* What the completion endpoint can answer: a completion without content,  *)
(* content that is not JSON, or content that parses to a record.           *)
(***************************************************************************)
EmptyCompletion == [kind |-> "empty", json |-> Absent]
MalformedCompletion == [kind |-> "malformed", json |-> Absent]
JsonCompletion(raw) == [kind |-> "json", json |-> Some(raw)]

Completions(Raws) ==
    {EmptyCompletion, MalformedCompletion} \cup {JsonCompletion(r) : r \in Raws}

(***************************************************************************)
(* SeaLionService: the cache.                                              *)
(*                                                                         *)
(* Time is counted in ticks of 150 s, so CACHE_DURATION (5 * 60 * 1000 ms) *)
(* is 2 ticks.  The size above which setCache sweeps (100 in the source)   *)
(* is scaled to the key space of the model (two keys).                     *)
(***************************************************************************)
CACHE_DURATION == 2
CacheSweepThreshold == 1

\* A transcript is the sequence of its UTF-16 code units: "Aa", "BB" (two
\* texts with the same hash) and "C".
Transcripts == {<<65, 97>>, <<66, 66>>, <<67>>}
SeaLionArgs == {<<"en", <<65, 97>> >>, <<"en", <<66, 66>> >>, <<"th", <<67>> >>}

\* Wrap an integer to a signed 16-bit value.
Wrap16(x) ==
    LET m == x % 65536
    IN  IF m >= 32768 THEN m - 65536 ELSE m

\* hash = ((hash << 5) - hash) + char; hash = hash & hash
\* 31 * hash + char wrapped to a signed 32-bit integer, the way `<<` and `&`
\* wrap it.  The product is taken on the two 16-bit halves of hash so that no
\* intermediate value leaves the 32-bit range.
hashStep(hash, char) ==
    LET hi == hash \div 65536
        lo == hash % 65536
        t  == 31 * lo + char
    IN  Wrap16(31 * hi + t \div 65536) * 65536 + (t % 65536)

RECURSIVE hashFrom(_, _)
\* the loop of hashString over the code units of str
hashFrom(hash, str) ==
    IF str = <<>> THEN hash
    ELSE hashFrom(hashStep(hash, Head(str)), Tail(str))

RECURSIVE ToBase36(_)
\* Number.prototype.toString(36) of a non-negative integer, as digit values
ToBase36(n) ==
    IF n < 36 THEN <<n>> ELSE Append(ToBase36(n \div 36), n % 36)

\* Math.abs(hash).toString(36)
hashString(str) ==
    LET h == hashFrom(0, str)
    IN  ToBase36(IF h < 0 THEN -h ELSE h)

\* `${language}-${this.hashString(transcription)}`
cacheKey(lang, str) == <<lang, "-", hashString(str)>>

EmptyMap == [k \in {} |-> Absent]

MapPut(m, k, v) == [x \in DOMAIN m \cup {k} |-> IF x = k THEN v ELSE m[x]]
MapRemove(m, ks) == [x \in DOMAIN m \ ks |-> m[x]]

IsFreshInclusive(age) == age <= CACHE_DURATION

IsFreshShort(age) == age < CACHE_DURATION - 1

\* (Date.now() - cached.timestamp) < this.CACHE_DURATION
IsFresh(age) == age < CACHE_DURATION

cacheAfterGetSliding(c, key, t) ==
    IF key \in DOMAIN c /\ ~IsFresh(t - c[key].timestamp) THEN MapRemove(c, {key})
    ELSE IF key \in DOMAIN c THEN MapPut(c, key, [c[key] EXCEPT !.timestamp = t])
    ELSE c

\* getFromCache: the value it returns ...
getFromCache(c, key, t) ==
    IF key \in DOMAIN c /\ IsFresh(t - c[key].timestamp)
    THEN Some(c[key].data)
    ELSE Absent

\* ... and the cache it leaves: an entry that is not fresh is deleted.
cacheAfterGet(c, key, t) ==
    IF key \in DOMAIN c /\ ~IsFresh(t - c[key].timestamp)
    THEN MapRemove(c, {key})
    ELSE c

\* cleanupCache: delete every entry with (now - timestamp) > CACHE_DURATION
cleanupCache(c, t) ==
    MapRemove(c, {k \in DOMAIN c : (t - c[k].timestamp) > CACHE_DURATION})

\* setCache: write the entry, then sweep if the map has grown too large.
setCache(c, key, data, t) ==
    LET written == MapPut(c, key, [data |-> data, timestamp |-> t])
    IN  IF Cardinality(DOMAIN written) > CacheSweepThreshold
        THEN cleanupCache(written, t)
        ELSE written

CallSlots == {1, 2}

\* A call record: its arguments, what its lookup saw, what it did, how it
\* settled.
\*   found       the entry under its key when it looked up (before deletion)
\*   freshStore  the data of the last setCache under its key, if that write
\*               was less than CACHE_DURATION before the lookup
\*   prior       the results returned, before the lookup, by calls with the
\*               same arguments made less than CACHE_DURATION before it
\*   peer        how the call with the same key that settled last, while this
\*               call was awaiting the provider, settled
IdleCall ==
    [pc |-> "idle", lang |-> "", tr |-> <<>>, key |-> <<>>, startedAt |-> 0,
     hit |-> FALSE, sealionCalls |-> 0, gpt4Calls |-> 0, out |-> Pending,
     found |-> Absent, freshStore |-> Absent, prior |-> {}, peer |-> Absent]

CacheInit ==
    /\ now = 0
    /\ cache = EmptyMap
    /\ calls = [c \in CallSlots |-> IdleCall]
    /\ nInvoked = 0
    /\ lastDone = IdleCall
    /\ lastStore = EmptyMap
    /\ returnsLog = {}

(***************************************************************************)
(* InvoiceService at rest: no generateInvoice call was made.               *)
(* A calendar date is [y, m, d]; the clock counts milliseconds.            *)
(***************************************************************************)
InvSlots == {1, 2}

\* The clock values of the model: an instant, the next millisecond, and the
\* instant 10^8 ms (about 27.8 hours, here one calendar day) later.
ClockStart == 1234567890
ClockValues == {ClockStart, ClockStart + 1, ClockStart + 100000000}

NoInvoice ==
    [invoiceNumber |-> <<>>, date |-> <<>>, dueDate |-> Absent, business |-> <<>>,
     customer |-> Absent, items |-> <<>>, subtotal |-> Absent, total |-> Absent,
     currency |-> "", paymentTerms |-> "", qrCode |-> Absent, template |-> "",
     language |-> ""]

\* A slot without a call.
InvIdle ==
    [pc |-> "idle", invoice |-> NoInvoice, payload |-> Absent, encoded |-> Absent,
     out |-> Pending]

NoTransaction ==
    [items |-> <<>>, customer |-> Absent, total |-> Absent, currency |-> "",
     paymentTerms |-> Absent, dueDate |-> Absent, language |-> ""]

InvoiceIdle ==
    /\ invTd = NoTransaction
    /\ invBt = Absent
    /\ invToday = <<>>
    /\ invNow = ClockStart
    /\ invPending = [c \in InvSlots |-> InvIdle]
    /\ invDone = InvIdle
    /\ issued = <<>>

(***************************************************************************)
(* The rate limiter at rest: no request has reached it.                    *)
(***************************************************************************)
NoRequest == [key |-> <<>>, at |-> 0, status |-> 0]

LimiterIdle ==
    /\ rlNow = 0
    /\ rlStore = EmptyMap
    /\ rlHistory = EmptyMap
    /\ rlLast = NoRequest

(***************************************************************************)
(* AIService.callOpenAIWithRetry                                           *)
(***************************************************************************)
maxRetries == 3

RetryGivesUpLate(att) == att = maxRetries + 1

RetryGivesUpAtFive(att) == att = 5

\* if (attempt === maxRetries) throw error
RetryGivesUp(att) == att = maxRetries

BackoffDelayFromZero(att) == 2 ^ (att - 1)

\* Math.pow(2, attempt) * 1000 milliseconds, in seconds
BackoffDelay(att) == 2 ^ att

(***************************************************************************)
(* AIService.processTransaction, from the completion to the return.        *)
(***************************************************************************)
\* The inner try block: JSON.parse, then the validator.
ParseAndValidate(completion, lang) ==
    IF completion.kind = "malformed" THEN Thrown("JSON.parse", 0)
    ELSE IF ValidatorThrows(Val(completion.json)) THEN Thrown("validator", 0)
    ELSE Returned(validateAndEnhanceTransactionData(Val(completion.json), lang), "validated")

InnerCatchAlwaysMock(outcome, lang) ==
    Returned(getMockTransactionData(lang), "mock:parseError")

\* catch (parseError) { return this.getMockTransactionData(language) }
InnerCatch(outcome, lang) ==
    IF outcome.kind = "thrown"
    THEN Returned(getMockTransactionData(lang), "mock:parseError")
    ELSE outcome

\* const result = ...content; if (!result) return mock; try { ... } catch ...
HandleCompletion(completion, lang) ==
    IF completion.kind = "empty"
    THEN Returned(getMockTransactionData(lang), "mock:noResult")
    ELSE InnerCatch(ParseAndValidate(completion, lang), lang)

OuterCatchRethrows(outcome, lang) == outcome

\* The outer catch (error) { ... return this.getMockTransactionData(language) }
OuterCatch(outcome, lang) ==
    IF outcome.kind = "thrown"
    THEN Returned(getMockTransactionData(lang), "mock:error")
    ELSE outcome

NoParse == [ok |-> FALSE, json |-> Absent]

AICallInit ==
    /\ ptPc = "idle"
    /\ attempt = 0
    /\ attemptLog = <<>>
    /\ waits = <<>>
    /\ retryOut = Pending
    /\ parsed = NoParse
    /\ ptOut = Pending

\* No request is being handled.
RouteIdle ==
    /\ hasAudio = FALSE
    /\ rPc = "none"
    /\ transTimer = "unset"
    /\ procTimer = "unset"
    /\ stt = Absent
    /\ transcript = Absent
    /\ responses = <<>>
    /\ apiStats = [totalRequests |-> 0, successfulRequests |-> 0, failedRequests |-> 0]

AIInit ==
    /\ apiKey \in BOOLEAN
    /\ language \in Languages
    /\ AICallInit
    /\ RouteIdle
    /\ CacheInit
    /\ InvoiceIdle
    /\ LimiterIdle

\* processTransaction up to its first await: without a credential it returns
\* the mock record at once; otherwise the first provider call is issued.
PTStart ==
    /\ ptPc = "idle"
    /\ IF ~apiKey
       THEN /\ ptOut' = OuterCatch(Returned(getMockTransactionData(language), "mock:noKey"), language)
            /\ ptPc' = "done"
            /\ attempt' = attempt
       ELSE /\ ptOut' = ptOut
            /\ ptPc' = "attempt"
            /\ attempt' = 1
    /\ UNCHANGED <<apiKey, language, attemptLog, waits, retryOut, parsed>>

\* processTransaction is called on its own.
PTInvoke ==
    /\ PTStart
    /\ UNCHANGED <<routeVars, cacheVars, invVars, rlVars>>

\* The provider call of the current attempt raises.
AttemptRaises ==
    /\ ptPc = "attempt"
    /\ attemptLog' = Append(attemptLog, [attempt |-> attempt, ok |-> FALSE, answer |-> Absent])
    /\ IF RetryGivesUp(attempt)
       THEN /\ retryOut' = Thrown("provider", attempt)
            /\ ptOut' = OuterCatch(Thrown("provider", attempt), language)
            /\ ptPc' = "done"
            /\ waits' = waits
       ELSE /\ waits' = Append(waits, BackoffDelay(attempt))
            /\ ptPc' = "backoff"
            /\ UNCHANGED <<retryOut, ptOut>>
    /\ UNCHANGED <<apiKey, language, attempt, parsed>>
    /\ UNCHANGED <<routeVars, cacheVars, invVars, rlVars>>

\* The backoff timer fires: the loop starts the next attempt.
BackoffElapses ==
    /\ ptPc = "backoff"
    /\ attempt' = attempt + 1
    /\ ptPc' = "attempt"
    /\ UNCHANGED <<apiKey, language, attemptLog, waits, retryOut, parsed, ptOut>>
    /\ UNCHANGED <<routeVars, cacheVars, invVars, rlVars>>

\* The provider call of the current attempt answers with a completion drawn
\* from Completions(Raws); processTransaction runs to its return.
AttemptAnswers(Raws) ==
    /\ ptPc = "attempt"
    /\ \E c \in Completions(Raws) :
        /\ attemptLog' = Append(attemptLog, [attempt |-> attempt, ok |-> TRUE, answer |-> Some(c)])
        /\ retryOut' = [kind |-> "returned", data |-> Some(c), via |-> "provider", err |-> 0]
        /\ parsed' = IF c.kind = "json" THEN [ok |-> TRUE, json |-> c.json] ELSE NoParse
        /\ ptOut' = OuterCatch(HandleCompletion(c, language), language)
    /\ ptPc' = "done"
    /\ UNCHANGED <<apiKey, language, attempt, waits>>
    /\ UNCHANGED <<routeVars, cacheVars, invVars, rlVars>>

AINext ==
    \/ PTInvoke
    \/ AttemptRaises
    \/ BackoffElapses
    \/ AttemptAnswers(RawRecords)

SpecAI == AIInit /\ [][AINext]_vars


(***************************************************************************)
(* AIService.transcribeAudio and SeaLionService.transcribeAudio            *)
(***************************************************************************)
\* What the speech-to-text endpoint can do with a request: raise (it is
\* unreachable, or it rejects the input) or answer with a text, which may be
\* empty.
WhisperRaises == [kind |-> "raises", text |-> Absent]
WhisperText(t) == [kind |-> "text", text |-> Some(t)]
WhisperOutcomes == {WhisperRaises, WhisperText(""), WhisperText("spoken words")}

mockTranscriptions ==
    [id |-> "Pak Budi servis motor", th |-> "phat thai 3 chan", vi |-> "Chi Lan may ao dai",
     tl |-> "Si Maria bumili ng 3 de lata", en |-> "Customer bought 3 shirts and 2 pants"]

\* return mockTranscriptions[language] || mockTranscriptions['en']
getMockTranscription(lang) ==
    IF lang \in DOMAIN mockTranscriptions THEN mockTranscriptions[lang]
    ELSE mockTranscriptions["en"]

\* The body of the try block once the credential was found:
\* await this.openai.audio.transcriptions.create(...);
\* return response || this.getMockTranscription(language)
WhisperRequest(w, lang) ==
    IF w.kind = "raises" THEN Thrown("whisper", 0)
    ELSE IF Val(w.text) = "" THEN Returned(getMockTranscription(lang), "mock:empty")
    ELSE Returned(Val(w.text), "whisper")

\* catch (error) { ... return this.getMockTranscription(language) }
TranscribeCatch(outcome, lang) ==
    IF outcome.kind = "thrown"
    THEN Returned(getMockTranscription(lang), "mock:error")
    ELSE outcome

\* AIService.transcribeAudio
transcribeAudio(key, w, lang) ==
    IF ~key THEN Returned(getMockTranscription(lang), "mock:noKey")
    ELSE TranscribeCatch(WhisperRequest(w, lang), lang)

\* SeaLionService.transcribeAudio: no credential check; the response is
\* returned as it is and every error is rethrown under one message.
\* Nothing in the server calls it.
seaLionTranscribeAudio(w) ==
    IF w.kind = "raises"
    THEN Thrown("Failed to transcribe audio with SEA-LION service", 0)
    ELSE Returned(Val(w.text), "whisper")

(***************************************************************************)
(* POST /api/voice/process                                                 *)
(*                                                                         *)
(* An error message is the sequence of its words; message.includes(w) is   *)
(* membership of w.  The size check of the handler cannot fail: multer     *)
(* already rejects an upload above the same 10 MB limit.                   *)
(***************************************************************************)
supportedLanguages == {"en", "id", "th", "vi", "tl"}

Includes(msg, w) == \E i \in 1..Len(msg) : msg[i] = w

TranscriptionTimeoutError == <<"Transcription", "timeout">>
ProcessingTimeoutError == <<"Transaction", "processing", "timeout">>
RenderTypeError == <<"Cannot", "read", "properties", "of", "undefined">>
\* the message of an error transcribeAudio lets through
TranscriptionError == <<"transcription", "error">>

ErrorStatusWithoutTimeout(msg) ==
    IF Includes(msg, "API key") \/ Includes(msg, "authentication") THEN 503
    ELSE IF Includes(msg, "rate limit") \/ Includes(msg, "quota") THEN 429
    ELSE 500

\* The status the catch block of the handler answers with.
ErrorStatus(msg) ==
    IF Includes(msg, "timeout") THEN 408
    ELSE IF Includes(msg, "API key") \/ Includes(msg, "authentication") THEN 503
    ELSE IF Includes(msg, "rate limit") \/ Includes(msg, "quota") THEN 429
    ELSE 500

Response(status, retryable, body) ==
    [status |-> status, retryable |-> retryable, body |-> body]

\* catch (error) { apiStats.failedRequests++; ... res.status(...).json(...) }
\* Every branch of the catch block tags its response retryable: true.
CatchAndRespond(msg) ==
    /\ apiStats' = [apiStats EXCEPT !.failedRequests = @ + 1]
    /\ responses' = Append(responses, Response(ErrorStatus(msg), Some(TRUE), Absent))
    /\ rPc' = "responded"

\* The handler from its start to its first await: the request is counted and
\* validated, the transcription is started and its timer armed.
RouteReceive ==
    /\ rPc = "idle"
    /\ IF language \notin supportedLanguages \/ ~hasAudio
       THEN /\ apiStats' = [apiStats EXCEPT !.totalRequests = @ + 1,
                                            !.failedRequests = @ + 1]
            /\ responses' = Append(responses, Response(400, Absent, Absent))
            /\ rPc' = "responded"
            /\ transTimer' = transTimer
       ELSE /\ apiStats' = [apiStats EXCEPT !.totalRequests = @ + 1]
            /\ rPc' = "transcribing"
            /\ transTimer' = "armed"
            /\ responses' = responses
    /\ UNCHANGED <<hasAudio, procTimer, stt, transcript>>
    /\ UNCHANGED <<aiVars, cacheVars, invVars, rlVars>>

\* aiService.transcribeAudio settles.  When it returns, the handler goes on to
\* call processTransaction and arms the processing timer; were it to raise,
\* the catch block would answer.
TranscriptionSettles ==
    /\ rPc = "transcribing"
    /\ \E w \in WhisperOutcomes :
        LET o == transcribeAudio(apiKey, w, language)
        IN  /\ stt' = IF apiKey THEN Some(w) ELSE Absent
            /\ IF o.kind = "returned"
               THEN /\ transcript' = o.data
                    /\ PTStart
                    /\ procTimer' = "armed"
                    /\ rPc' = "processing"
                    /\ UNCHANGED <<responses, apiStats>>
               ELSE /\ CatchAndRespond(TranscriptionError)
                    /\ UNCHANGED <<transcript, procTimer, aiVars>>
    /\ UNCHANGED <<hasAudio, transTimer>>
    /\ UNCHANGED <<cacheVars, invVars, rlVars>>

\* The transcription timer fires.  If the transcription has not settled the
\* race is lost to it and the catch block answers; the timer is never
\* cleared, so it also fires, without effect, after the race was won.
TranscriptionTimerFires ==
    /\ transTimer = "armed"
    /\ IF rPc = "transcribing"
       THEN /\ transTimer' = "wonRace"
            /\ CatchAndRespond(TranscriptionTimeoutError)
       ELSE /\ transTimer' = "firedLate"
            /\ UNCHANGED <<rPc, responses, apiStats>>
    /\ UNCHANGED <<hasAudio, procTimer, stt, transcript>>
    /\ UNCHANGED <<aiVars, cacheVars, invVars, rlVars>>

\* processTransaction has settled and the handler resumes with its result.
ProcessingSettles ==
    /\ rPc = "processing"
    /\ ptOut.kind /= "pending"
    /\ IF ptOut.kind = "returned"
       THEN /\ rPc' = "invoicing"
            /\ UNCHANGED <<responses, apiStats>>
       ELSE CatchAndRespond(<<"extraction", "error">>)
    /\ UNCHANGED <<hasAudio, transTimer, procTimer, stt, transcript>>
    /\ UNCHANGED <<aiVars, cacheVars, invVars, rlVars>>

\* The processing timer fires.  A settled processTransaction promise resumes
\* the handler before any timer callback runs, so the timer wins the race only
\* while the extraction is pending.
ProcessingTimerFires ==
    /\ procTimer = "armed"
    /\ ~(rPc = "processing" /\ ptOut.kind /= "pending")
    /\ IF rPc = "processing"
       THEN /\ procTimer' = "wonRace"
            /\ CatchAndRespond(ProcessingTimeoutError)
       ELSE /\ procTimer' = "firedLate"
            /\ UNCHANGED <<rPc, responses, apiStats>>
    /\ UNCHANGED <<hasAudio, transTimer, stt, transcript>>
    /\ UNCHANGED <<aiVars, cacheVars, invVars, rlVars>>

\* generateInvoice and generateInvoiceHTML succeed: the result is sent.
InvoiceSucceeds ==
    /\ rPc = "invoicing"
    /\ apiStats' = [apiStats EXCEPT !.successfulRequests = @ + 1]
    /\ responses' = Append(responses, Response(200, Absent, ptOut.data))
    /\ rPc' = "responded"
    /\ UNCHANGED <<hasAudio, transTimer, procTimer, stt, transcript>>
    /\ UNCHANGED <<aiVars, cacheVars, invVars, rlVars>>

\* The invoice stage raises (the renderer dereferences a field the provider
\* left out): the catch block answers.
InvoiceRaises ==
    /\ rPc = "invoicing"
    /\ CatchAndRespond(RenderTypeError)
    /\ UNCHANGED <<hasAudio, transTimer, procTimer, stt, transcript>>
    /\ UNCHANGED <<aiVars, cacheVars, invVars, rlVars>>

\* The provider records the handler's model draws from.
SampleRaws ==
    {MkRaw("array", SampleItems, Some(3), FieldsAbsent),
     MkRaw("notArray", <<>>, Absent, FieldsAbsent)}

RouteInit ==
    /\ apiKey \in BOOLEAN
    /\ language \in supportedLanguages \cup {"fr"}
    /\ AICallInit
    /\ hasAudio \in BOOLEAN
    /\ rPc = "idle"
    /\ transTimer = "unset"
    /\ procTimer = "unset"
    /\ stt = Absent
    /\ transcript = Absent
    /\ responses = <<>>
    /\ apiStats = [totalRequests |-> 0, successfulRequests |-> 0, failedRequests |-> 0]
    /\ CacheInit
    /\ InvoiceIdle
    /\ LimiterIdle

RouteNext ==
    \/ RouteReceive
    \/ TranscriptionSettles
    \/ TranscriptionTimerFires
    \/ ProcessingSettles
    \/ ProcessingTimerFires
    \/ InvoiceSucceeds
    \/ InvoiceRaises
    \/ AttemptRaises
    \/ BackoffElapses
    \/ AttemptAnswers(SampleRaws)

SpecRoute == RouteInit /\ [][RouteNext]_vars

(***************************************************************************)
(* SeaLionService.processVoiceTransaction                                  *)
(***************************************************************************)
\* private fallbackToGPT: boolean = true; nothing assigns it.
fallbackToGPT == TRUE

\* What the general-purpose model's completions parse to; processWithGPT4
\* returns the parsed record as it is.
SeaLionRaws ==
    {MkRaw("array", SampleItems, Some(3), FieldsAbsent),
     MkRaw("array", SampleItems, Absent, FieldsAbsent)}

\* processWithGPT4, from the completion to its return or throw.
processWithGPT4Outcome(completion) ==
    IF completion.kind = "empty" THEN Thrown("No response from AI service", 0)
    ELSE IF completion.kind = "malformed" THEN Thrown("Invalid AI response format", 0)
    ELSE Returned(Val(completion.json), "gpt4")

StoreOutcomeFirstWins(c, key, o, t) ==
    IF o.kind = "returned" /\ key \notin DOMAIN c THEN setCache(c, key, Val(o.data), t)
    ELSE c

StoreOutcomeAlways(c, key, o, t) == setCache(c, key, o.data, t)

\* const result = await this.processWithGPT4(...); this.setCache(cacheKey, result)
\* setCache is reached only if processWithGPT4 returned.
StoreOutcome(c, key, o, t) ==
    IF o.kind = "returned" THEN setCache(c, key, Val(o.data), t) ELSE c

\* A call made at time `at` returned `data`.  Of the calls that returned the
\* same data for the same arguments the log keeps the one made last: a later
\* call is within TTL of one of them exactly if it is within TTL of that one.
LogReturn(lang, tr, data, at) ==
    LET same(x) == x.lang = lang /\ x.tr = tr /\ x.data = data
        older == {x \in returnsLog : same(x) /\ x.at <= at}
    IN  returnsLog' = IF \E x \in returnsLog : same(x) /\ x.at > at
                      THEN returnsLog
                      ELSE (returnsLog \ older) \cup
                           {[lang |-> lang, tr |-> tr, data |-> data, at |-> at]}

\* The free call slot a new call takes (the slots are interchangeable).
FreeSlot == CHOOSE c \in CallSlots :
                /\ calls[c].pc = "idle"
                /\ \A d \in CallSlots : calls[d].pc = "idle" => c <= d

\* A call is made: the cache lookup, and on a miss the regional model (which
\* always raises) followed by the request to the general-purpose model, all
\* before the first await that yields to other callers.  A hit returns at
\* once.
Invoke(lang, tr) ==
    /\ \E c \in CallSlots : calls[c].pc = "idle"
    /\ nInvoked < MaxCalls
    /\ nInvoked' = nInvoked + 1
    /\ LET c == FreeSlot
           key == cacheKey(lang, tr)
           cached == getFromCache(cache, key, now)
           base == [IdleCall EXCEPT
                      !.lang = lang, !.tr = tr, !.key = key, !.startedAt = now,
                      !.found = IF key \in DOMAIN cache THEN Some(cache[key]) ELSE Absent,
                      !.freshStore =
                          IF key \in DOMAIN lastStore /\ now - lastStore[key].timestamp < CACHE_DURATION
                          THEN Some(lastStore[key].data) ELSE Absent,
                      !.prior = {r.data : r \in {x \in returnsLog :
                                    x.lang = lang /\ x.tr = tr /\ now - x.at < CACHE_DURATION}}]
       IN  /\ cache' = cacheAfterGet(cache, key, now)
           /\ IF Has(cached)
              THEN /\ lastDone' = [base EXCEPT !.pc = "done", !.hit = TRUE,
                                               !.out = Returned(Val(cached), "cache")]
                   /\ LogReturn(lang, tr, Val(cached), now)
                   /\ calls' = calls
              ELSE IF fallbackToGPT
              THEN /\ calls' = [calls EXCEPT ![c] =
                          [base EXCEPT !.pc = "gpt4", !.sealionCalls = 1, !.gpt4Calls = 1]]
                   /\ lastDone' = IdleCall
                   /\ returnsLog' = returnsLog
              ELSE /\ lastDone' = [base EXCEPT !.pc = "done", !.sealionCalls = 1,
                                               !.out = Thrown("SEA-LION API not available", 0)]
                   /\ UNCHANGED <<calls, returnsLog>>
    /\ UNCHANGED <<now, lastStore>>
    /\ UNCHANGED <<aiVars, routeVars, invVars, rlVars>>

\* Call c settles with outcome o: its slot is free again, and the calls with
\* the same key that are still awaiting the provider have seen it settle.
SettleCall(c, o) ==
    calls' = [d \in CallSlots |->
                 IF d = c THEN IdleCall
                 ELSE IF calls[d].pc = "gpt4" /\ calls[d].key = calls[c].key
                 THEN [calls[d] EXCEPT !.peer = Some([kind |-> o.kind, data |-> o.data])]
                 ELSE calls[d]]

\* The request to the general-purpose model raises: nothing catches it.
Gpt4Raises(c) ==
    /\ calls[c].pc = "gpt4"
    /\ lastDone' = [calls[c] EXCEPT !.pc = "done", !.out = Thrown("provider", 0)]
    /\ SettleCall(c, Thrown("provider", 0))
    /\ UNCHANGED <<now, cache, nInvoked, lastStore, returnsLog>>
    /\ UNCHANGED <<aiVars, routeVars, invVars, rlVars>>

\* The general-purpose model answers: processWithGPT4 returns or throws; a
\* returned record is stored under the key and returned.
Gpt4Answers(c) ==
    /\ calls[c].pc = "gpt4"
    /\ \E completion \in Completions(SeaLionRaws) :
        LET o == processWithGPT4Outcome(completion)
        IN  /\ lastDone' = [calls[c] EXCEPT !.pc = "done", !.out = o]
            /\ cache' = StoreOutcome(cache, calls[c].key, o, now)
            /\ IF o.kind = "returned"
               THEN /\ lastStore' = MapPut(lastStore, calls[c].key,
                                           [data |-> Val(o.data), timestamp |-> now])
                    /\ LogReturn(calls[c].lang, calls[c].tr, Val(o.data), calls[c].startedAt)
               ELSE UNCHANGED <<lastStore, returnsLog>>
            /\ SettleCall(c, o)
    /\ UNCHANGED <<now, nInvoked>>
    /\ UNCHANGED <<aiVars, routeVars, invVars, rlVars>>

\* Time passes.  The history variables forget what is CACHE_DURATION old:
\* no later lookup counts it.
Tick ==
    /\ now < MaxTime
    /\ now' = now + 1
    /\ returnsLog' = {r \in returnsLog : now' - r.at < CACHE_DURATION}
    /\ lastStore' = MapRemove(lastStore,
                        {k \in DOMAIN lastStore : now' - lastStore[k].timestamp >= CACHE_DURATION})
    /\ lastDone' = IdleCall
    /\ UNCHANGED <<cache, calls, nInvoked>>
    /\ UNCHANGED <<aiVars, routeVars, invVars, rlVars>>

CacheSpecInit ==
    /\ apiKey = TRUE
    /\ language = "en"
    /\ AICallInit
    /\ RouteIdle
    /\ CacheInit
    /\ InvoiceIdle
    /\ LimiterIdle

CacheNext ==
    \/ \E a \in SeaLionArgs : Invoke(a[1], a[2])
    \/ \E c \in CallSlots : Gpt4Raises(c)
    \/ \E c \in CallSlots : Gpt4Answers(c)
    \/ Tick

SpecCache == CacheSpecInit /\ [][CacheNext]_vars

(***************************************************************************)
(* AIService.processTransaction under the event loop's scheduling: a       *)
(* provider request that was issued settles (the claim about termination   *)
(* assumes it), and a backoff timer that was armed fires.  Whether the     *)
(* call terminates does not depend on what the records hold, so the        *)
(* provider answers from a few of them.                                    *)
(***************************************************************************)
LiveRaws == SampleRaws \cup SeaLionRaws

AILiveNext ==
    \/ PTInvoke
    \/ AttemptRaises
    \/ BackoffElapses
    \/ AttemptAnswers(LiveRaws)

AIFairness ==
    /\ WF_vars(AttemptRaises \/ AttemptAnswers(LiveRaws))
    /\ WF_vars(BackoffElapses)

SpecAILive == AIInit /\ [][AILiveNext]_vars /\ AIFairness

(***************************************************************************)
(* The two extraction chains side by side.  AIService and SeaLionService   *)
(* are separate objects that share no state, so a behaviour exercises one  *)
(* of them: processTransaction with any provider record, or                *)
(* processVoiceTransaction for one transcript on a clock that stands.      *)
(***************************************************************************)
ChainArgs == {<<"th", <<67>> >>}

ChainNext ==
    \/ /\ nInvoked = 0
       /\ AINext
    \/ /\ ptPc = "idle"
       /\ \/ \E a \in ChainArgs : Invoke(a[1], a[2])
          \/ \E c \in CallSlots : Gpt4Raises(c)
          \/ \E c \in CallSlots : Gpt4Answers(c)

SpecChain == AIInit /\ [][ChainNext]_vars

(***************************************************************************)
(* InvoiceService: dates.                                                  *)
(*                                                                         *)
(* The server clock is taken to run in UTC, so the local-time arithmetic   *)
(* of setDate / setMonth and the UTC date of toISOString().split('T')[0]   *)
(* speak of the same calendar day.  An ISO date string is the date record  *)
(* it spells.                                                              *)
(***************************************************************************)
MkDate(y, m, d) == [y |-> y, m |-> m, d |-> d]

IsLeap(y) == y % 4 = 0 /\ (y % 100 /= 0 \/ y % 400 = 0)

DaysIn(y, m) ==
    IF m = 2 THEN (IF IsLeap(y) THEN 29 ELSE 28)
    ELSE IF m \in {4, 6, 9, 11} THEN 30 ELSE 31

RECURSIVE Normalise(_, _, _)
\* The date the Date object settles on when a month above 12 or a day past
\* the end of the month is set: the surplus is carried forward.
Normalise(y, m, d) ==
    IF m > 12 THEN Normalise(y + 1, m - 12, d)
    ELSE IF d > DaysIn(y, m) THEN Normalise(y, m + 1, d - DaysIn(y, m))
    ELSE MkDate(y, m, d)

\* x.setDate(x.getDate() + n)
SetDatePlus(date, n) == Normalise(date.y, date.m, date.d + n)

\* x.setMonth(x.getMonth() + n)
SetMonthPlus(date, n) == Normalise(date.y, date.m + n, date.d)

(***************************************************************************)
(* Due-date hints.  A hint is the sequence of its words; a word contains   *)
(* 'week' (or 'month') if it is one of the words listed for it, which is   *)
(* what String.prototype.includes sees of the whole hint.                  *)
(***************************************************************************)
WordsContaining(w) ==
    CASE w = "week"  -> {"week", "weeks", "(week)"}
      [] w = "month" -> {"month", "months", "(month)"}
      [] OTHER -> {w}

\* dueDate.includes(w)
HintIncludes(hint, w) == \E i \in 1..Len(hint) : hint[i] \in WordsContaining(w)

HintDate == MkDate(2025, 3, 15)

\* new Date(dueDate): the date the hint parses to, Absent for Invalid Date.
\* An ISO date parses; so does a month-day-year date, after which the parser
\* skips a parenthesised remark.
DateParse(hint) ==
    IF hint \in {<<"2025-03-15">>,
                 <<"Mar", "15", "2025">>,
                 <<"Mar", "15", "2025", "(week)">>,
                 <<"Mar", "15", "2025", "(month)">>}
    THEN Some(HintDate)
    ELSE Absent

Hints ==
    {<<>>,
     <<"next", "week">>, <<"2", "weeks">>, <<"next", "month">>,
     <<"week", "or", "month">>, <<"month", "or", "week">>,
     <<"2025-03-15">>, <<"Mar", "15", "2025", "(week)">>,
     <<"Mar", "15", "2025", "(month)">>, <<"tomorrow">>}

Todays == {MkDate(2025, 1, 15), MkDate(2025, 1, 31), MkDate(2024, 2, 29),
           MkDate(2025, 12, 28)}

parseDueDateMonthFirst(dueDate, today) ==
    IF HintIncludes(dueDate, "month") THEN SetMonthPlus(today, 1)
    ELSE IF HintIncludes(dueDate, "week") THEN SetDatePlus(today, 7)
    ELSE IF Has(DateParse(dueDate)) THEN Val(DateParse(dueDate))
    ELSE SetDatePlus(today, 30)

\* InvoiceService.parseDueDate, with `today` the date of new Date()
parseDueDate(dueDate, today) ==
    IF HintIncludes(dueDate, "week") THEN SetDatePlus(today, 7)
    ELSE IF HintIncludes(dueDate, "month") THEN SetMonthPlus(today, 1)
    ELSE IF Has(DateParse(dueDate)) THEN Val(DateParse(dueDate))
    ELSE SetDatePlus(today, 30)

ResolveDueDateWheneverHint(td, today) ==
    IF Has(td.dueDate) /\ Val(td.dueDate) /= <<>>
    THEN Some(parseDueDate(Val(td.dueDate), today))
    ELSE Absent

\* let dueDate; if (paymentTerms === 'later' && transactionData.dueDate) ...
ResolveDueDate(td, today) ==
    IF td.paymentTerms = Some("later") /\ Has(td.dueDate) /\ Val(td.dueDate) /= <<>>
    THEN Some(parseDueDate(Val(td.dueDate), today))
    ELSE Absent

(***************************************************************************)
(* InvoiceService: business identity and template.  Names and addresses    *)
(* in Thai and Vietnamese are written in Latin letters.                    *)
(***************************************************************************)
Business(n, a, ph, e) == [name |-> n, address |-> a, phone |-> ph, email |-> e]

templates ==
    ("street food" :>
        ("th" :> Business("Ran Ahan Rim Thang", "123 Thanon Sukhumvit Krung Thep",
                          "+66 2 123 4567", "streetfood@example.com") @@
         "en" :> Business("Street Food Corner", "123 Main Street, Bangkok",
                          "+66 2 123 4567", "streetfood@example.com"))) @@
    ("repair shop" :>
        ("id" :> Business("Bengkel Motor Pak Budi", "Jl. Raya No. 123, Jakarta",
                          "+62 21 123 4567", "bengkel@example.com") @@
         "en" :> Business("Budi Motor Repair", "123 Main Road, Jakarta",
                          "+62 21 123 4567", "repair@example.com"))) @@
    ("sari-sari store" :>
        ("tl" :> Business("Sari-Sari Store ni Maria", "123 Barangay Street, Manila",
                          "+63 2 123 4567", "sarisari@example.com") @@
         "en" :> Business("Maria's Sari-Sari Store", "123 Barangay Street, Manila",
                          "+63 2 123 4567", "store@example.com"))) @@
    ("tailor" :>
        ("vi" :> Business("Tiem May Chi Lan", "123 Duong Nguyen Hue, TP.HCM",
                          "+84 28 123 4567", "tailor@example.com") @@
         "en" :> Business("Lan's Tailor Shop", "123 Nguyen Hue Street, HCMC",
                          "+84 28 123 4567", "tailor@example.com")))

GenericBusiness ==
    Business("VoiceFlow Business", "123 Business Street", "+1 234 567 8900",
             "contact@voiceflow.ai")

getBusinessTemplateFirstKnown(businessType, lang) ==
    IF businessType \in DOMAIN templates /\ lang \in DOMAIN templates[businessType]
    THEN templates[businessType][lang]
    ELSE templates["street food"]["en"]

\* InvoiceService.getBusinessTemplate
getBusinessTemplate(businessType, lang) ==
    IF businessType \in DOMAIN templates /\ lang \in DOMAIN templates[businessType]
    THEN templates[businessType][lang]
    ELSE GenericBusiness

styleTemplates ==
    ("street food" :> "food-service") @@ ("repair shop" :> "service-maintenance") @@
    ("sari-sari store" :> "retail") @@ ("tailor" :> "custom-service") @@
    ("retail" :> "retail") @@ ("general" :> "standard")

\* InvoiceService.selectTemplate: templates[businessType] || 'standard'
selectTemplate(businessType) ==
    IF businessType \in DOMAIN styleTemplates THEN styleTemplates[businessType]
    ELSE "standard"

(***************************************************************************)
(* InvoiceService.generateInvoiceNumber.  A string of digits is the        *)
(* sequence of its digit values; the prefix is the string "VF".            *)
(***************************************************************************)
RECURSIVE Digits(_)
\* Number.prototype.toString() of a non-negative integer
Digits(n) == IF n < 10 THEN <<n>> ELSE Append(Digits(n \div 10), n % 10)

\* String.prototype.slice(-k)
SliceLast(str, k) ==
    IF Len(str) <= k THEN str ELSE SubSeq(str, Len(str) - k + 1, Len(str))

RECURSIVE PadStart(_, _, _)
\* String.prototype.padStart(k, c)
PadStart(str, k, c) == IF Len(str) >= k THEN str ELSE PadStart(<<c>> \o str, k, c)

\* What Math.floor(Math.random() * 99) can yield.
RandomSuffixes == 0..98

\* The draws of the model: the smallest and the largest.
RandomDraws == {0, 98}

generateInvoiceNumberUnpadded(timestamp, random) ==
    <<"VF">> \o SliceLast(Digits(timestamp), 8) \o Digits(random)

\* `${prefix}${timestamp}${random}` with timestamp Date.now() and random the
\* value of Math.floor(Math.random() * 99)
generateInvoiceNumber(timestamp, random) ==
    <<"VF">> \o SliceLast(Digits(timestamp), 8) \o PadStart(Digits(random), 2, 0)

(***************************************************************************)
(* InvoiceService.generatePaymentQR: the payload of each currency.  A      *)
(* payload is kept as its parts: the scheme, and the amount, the currency   *)
(* and the reference (the timestamp of `VF${Date.now()}`) interpolated     *)
(* into the fixed text.                                                    *)
(***************************************************************************)
Payload(scheme, amount, unit, ref) ==
    [scheme |-> scheme, amount |-> amount, unit |-> unit, ref |-> ref]

PayloadOk(pl) == [ok |-> TRUE, payload |-> Some(pl)]
\* amount.toFixed / amount.toString on undefined or null: a TypeError
PayloadThrows == [ok |-> FALSE, payload |-> Absent]

generatePromptPayQR(amount) ==
    IF Has(amount) THEN PayloadOk(Payload("promptpay", amount, "THB", Absent)) ELSE PayloadThrows

generateGCashQR(amount, t) == PayloadOk(Payload("gcash", amount, "PHP", Some(t)))

generateGoPayQR(amount, t) == PayloadOk(Payload("gopay", amount, "IDR", Some(t)))

generateVietQRCode(amount) ==
    IF Has(amount) THEN PayloadOk(Payload("vietqr", amount, "VND", Absent)) ELSE PayloadThrows

\* The switch of generatePaymentQR.
BuildPayload(td, t) ==
    CASE td.currency = "THB" -> generatePromptPayQR(td.total)
      [] td.currency = "PHP" -> generateGCashQR(td.total, t)
      [] td.currency = "IDR" -> generateGoPayQR(td.total, t)
      [] td.currency = "VND" -> generateVietQRCode(td.total)
      [] OTHER -> PayloadOk(Payload("text", td.total, td.currency, Absent))

QRCatchRethrows(encoded) == encoded

\* try { ... return await QRCode.toDataURL(...) } catch (error) { return '' }
\* `encoded` is the data URL, Absent when the payload or the encoder raised.
QRCatch(encoded) == IF Has(encoded) THEN encoded ELSE Some("")

(***************************************************************************)
(* InvoiceService.generateInvoice                                          *)
(***************************************************************************)
\* generateInvoice calls made in one behaviour
MaxInvoices == 2

DataUrl == "data:image/png;base64"

\* businessType: string = 'general'
BusinessTypeArg(bt) == IF Has(bt) THEN Val(bt) ELSE "general"

\* The lines of generateInvoice before generatePaymentQR, and the record it
\* returns but for qrCode.
ComposeInvoice(td, bt, today, t, random) ==
    [invoiceNumber |-> generateInvoiceNumber(t, random),
     date |-> today,
     dueDate |-> ResolveDueDate(td, today),
     business |-> getBusinessTemplate(BusinessTypeArg(bt), td.language),
     customer |-> td.customer,
     items |-> td.items,
     subtotal |-> td.total,
     total |-> td.total,
     currency |-> td.currency,
     paymentTerms |-> OrStr(td.paymentTerms, "immediate"),
     qrCode |-> Absent,
     template |-> selectTemplate(BusinessTypeArg(bt)),
     language |-> td.language]

\* generateInvoice from the result of generatePaymentQR to its return.
FinishInvoice(call, encoded) ==
    LET qr == QRCatch(encoded)
    IN  IF Has(qr)
        THEN [call EXCEPT !.pc = "done", !.encoded = encoded,
                          !.out = Returned([call.invoice EXCEPT !.qrCode = qr], "invoice")]
        ELSE [call EXCEPT !.pc = "done", !.encoded = encoded, !.out = Thrown("QRCode", 0)]

FreeInvSlot == CHOOSE c \in InvSlots :
                   /\ invPending[c].pc = "idle"
                   /\ \A d \in InvSlots : invPending[d].pc = "idle" => c <= d

\* generateInvoice is called: the number, date, identity, template and due
\* date are computed and the payload is built.  If building the payload raises,
\* generatePaymentQR returns '' and the call returns without yielding to
\* another caller; otherwise the call awaits the encoder.
GenerateInvoice ==
    /\ Len(issued) < MaxInvoices
    /\ \E c \in InvSlots : invPending[c].pc = "idle"
    /\ \E random \in RandomDraws :
        LET c == FreeInvSlot
            inv == ComposeInvoice(invTd, invBt, invToday, invNow, random)
            built == BuildPayload(invTd, invNow)
            call == [pc |-> "qr", invoice |-> inv, payload |-> built.payload,
                     encoded |-> Absent, out |-> Pending]
        IN  /\ issued' = Append(issued, [timestamp |-> invNow, random |-> random,
                                         number |-> inv.invoiceNumber])
            /\ IF built.ok
               THEN /\ invPending' = [invPending EXCEPT ![c] = call]
                    /\ invDone' = InvIdle
               ELSE /\ invDone' = FinishInvoice(call, Absent)
                    /\ invPending' = invPending
    /\ UNCHANGED <<invTd, invBt, invToday, invNow>>
    /\ UNCHANGED <<aiVars, routeVars, cacheVars, rlVars>>

\* QRCode.toDataURL resolves with the image.
QREncodes(c) ==
    /\ invPending[c].pc = "qr"
    /\ invDone' = FinishInvoice(invPending[c], Some(DataUrl))
    /\ invPending' = [invPending EXCEPT ![c] = InvIdle]
    /\ UNCHANGED <<invTd, invBt, invToday, invNow, issued>>
    /\ UNCHANGED <<aiVars, routeVars, cacheVars, rlVars>>

\* QRCode.toDataURL rejects.
QRFails(c) ==
    /\ invPending[c].pc = "qr"
    /\ invDone' = FinishInvoice(invPending[c], Absent)
    /\ invPending' = [invPending EXCEPT ![c] = InvIdle]
    /\ UNCHANGED <<invTd, invBt, invToday, invNow, issued>>
    /\ UNCHANGED <<aiVars, routeVars, cacheVars, rlVars>>

\* The clock moves on to a later value; at the last one the date has changed.
ClockAdvances ==
    /\ \E t \in ClockValues :
        /\ t > invNow
        /\ invNow' = t
        /\ invToday' = IF t - ClockStart >= 100000000 THEN SetDatePlus(invToday, 1)
                       ELSE invToday
    /\ invDone' = InvIdle
    /\ UNCHANGED <<invTd, invBt, invPending, issued>>
    /\ UNCHANGED <<aiVars, routeVars, cacheVars, rlVars>>

\* The transaction handed to generateInvoice: the fields it reads.
SampleInvoiceItems == << Item("Shirts", 3, 2500, 7500), Item("Pants", 2, 3750, 7500) >>

BaseTransaction ==
    [items |-> SampleInvoiceItems, customer |-> Absent, total |-> Some(15000),
     currency |-> "USD", paymentTerms |-> Some("immediate"), dueDate |-> Absent,
     language |-> "en"]

BusinessTypes == {"street food", "repair shop", "sari-sari store", "tailor",
                  "retail", "general", "kiosk"}

Currencies == {"USD", "IDR", "THB", "VND", "PHP", "EUR"}

\* [transaction, businessType, today]: every payment term with every hint on
\* every date; every language with every business type; every currency with
\* and without a total.
InvoiceCases ==
    {<<[BaseTransaction EXCEPT !.paymentTerms = pt, !.dueDate = h], Some("general"), today>> :
        pt \in {Absent, Some("later"), Some("immediate")},
        h \in {Absent} \cup {Some(x) : x \in Hints},
        today \in Todays}
    \cup
    {<<[BaseTransaction EXCEPT !.language = l, !.currency = getCurrencyForLanguage(l)],
       bt, MkDate(2025, 1, 15)>> :
        l \in Languages, bt \in {Absent} \cup {Some(x) : x \in BusinessTypes}}
    \cup
    {<<[BaseTransaction EXCEPT !.currency = cur, !.total = tot], Some("retail"),
       MkDate(2025, 1, 15)>> :
        cur \in Currencies, tot \in {Absent, Some(15000)}}

InvoiceInit ==
    /\ apiKey = TRUE
    /\ language = "en"
    /\ AICallInit
    /\ RouteIdle
    /\ CacheInit
    /\ \E k \in InvoiceCases :
        /\ invTd = k[1]
        /\ invBt = k[2]
        /\ invToday = k[3]
    /\ invNow = ClockStart
    /\ invPending = [c \in InvSlots |-> InvIdle]
    /\ invDone = InvIdle
    /\ issued = <<>>
    /\ LimiterIdle

InvoiceNext ==
    \/ GenerateInvoice
    \/ \E c \in InvSlots : QREncodes(c)
    \/ \E c \in InvSlots : QRFails(c)
    \/ ClockAdvances

SpecInvoice == InvoiceInit /\ [][InvoiceNext]_vars

(***************************************************************************)
(* The rate limiter middleware of /api/.                                   *)
(*                                                                         *)
(* Time is counted in ticks of 30 s, so rlWindowMs (60 000 ms unless the   *)
(* environment sets it) is 2 ticks; rlMax (60 unless the environment sets  *)
(* it) is scaled to 2 requests.                                            *)
(***************************************************************************)
rlWindowMs == 2
rlMax == 2

\* requests handled in one behaviour, and the last tick of the clock
MaxRequests == 5
MaxLimiterTime == 4

\* A request as the limiter sees it: req.ip, which may be missing, and
\* req.path, the path below the mount point /api/ as its segments.
LimiterRequests ==
    {[ip |-> Some("10.0.0.1"), path |-> <<"voice", "process">>],
     [ip |-> Some("10.0.0.1"), path |-> <<"health">>],
     [ip |-> Absent, path |-> <<"invoice", "generate">>]}

\* (req.ip || 'global') + ':' + (req.path.split('/')[2] || 'root')
\* req.path starts with '/', so split('/')[2] is its second segment.
LimiterKey(req) ==
    <<OrStr(req.ip, "global"), ":",
      IF Len(req.path) >= 2 /\ req.path[2] /= "" THEN req.path[2] ELSE "root">>

InWindowInclusive(ts, windowStart) == ts >= windowStart

\* arr.filter(ts => ts > windowStart)
InWindow(ts, windowStart) == ts > windowStart

\* const arr = rlStore.get(key) || []
StoredFor(key) == IF key \in DOMAIN rlStore THEN rlStore[key] ELSE <<>>

\* recent = arr.filter(...); recent.push(now)
Recent(key, t) ==
    Append(SelectSeq(StoredFor(key), LAMBDA ts : InWindow(ts, t - rlWindowMs)), t)

\* One request passes through the middleware: the timestamps of the key are
\* filtered, the request is recorded, and it is answered 429 or passed on
\* (status 0: next() was called).
LimiterRequest(req) ==
    /\ LET key == LimiterKey(req)
           recent == Recent(key, rlNow)
           status == IF Len(recent) > rlMax THEN 429 ELSE 0
           seen == IF key \in DOMAIN rlHistory THEN rlHistory[key] ELSE <<>>
       IN  /\ rlStore' = MapPut(rlStore, key, recent)
           /\ rlLast' = [key |-> key, at |-> rlNow, status |-> status]
           /\ rlHistory' = MapPut(rlHistory, key,
                                  Append(seen, [at |-> rlNow, admitted |-> status = 0]))
    /\ UNCHANGED rlNow
    /\ UNCHANGED <<aiVars, routeVars, cacheVars, invVars>>

\* the requests handled so far
RequestsSeen ==
    LET RECURSIVE Count(_)
        Count(ks) == IF ks = {} THEN 0
                     ELSE LET k == CHOOSE x \in ks : TRUE
                          IN  Len(rlHistory[k]) + Count(ks \ {k})
    IN  Count(DOMAIN rlHistory)

LimiterTick ==
    /\ rlNow < MaxLimiterTime
    /\ rlNow' = rlNow + 1
    /\ rlLast' = NoRequest
    /\ UNCHANGED <<rlStore, rlHistory>>
    /\ UNCHANGED <<aiVars, routeVars, cacheVars, invVars>>

LimiterInit ==
    /\ apiKey = TRUE
    /\ language = "en"
    /\ AICallInit
    /\ RouteIdle
    /\ CacheInit
    /\ InvoiceIdle
    /\ LimiterIdle

LimiterNext ==
    \/ \E req \in LimiterRequests : RequestsSeen < MaxRequests /\ LimiterRequest(req)
    \/ LimiterTick

SpecLimiter == LimiterInit /\ [][LimiterNext]_vars

(***************************************************************************)
(* Properties of AIService (checked under SpecAI).                         *)
(***************************************************************************)
TransactionDataFields ==
    {"items", "customer", "total", "currency", "paymentTerms", "dueDate",
     "businessType", "language", "metadata"}

IsTransactionData(d) ==
    /\ DOMAIN d = TransactionDataFields
    /\ d.items \in Seq([name : STRING, quantity : Int, unitPrice : Int, total : Int])
    /\ d.total \in Int
    /\ d.currency \in STRING
    /\ d.language \in STRING

MockVias == {"mock:noKey", "mock:noResult", "mock:parseError", "mock:error"}

\* C1: processTransaction never raises: its promise is never rejected, and
\* once it has settled it has returned a TransactionData record, whatever the
\* provider stage did (no credential, every attempt raising, an empty
\* completion, malformed JSON, the validator failing on the parsed output).
C1_NeverRaises ==
    /\ ptOut.kind /= "thrown"
    /\ ptPc = "done" =>
        /\ ptOut.kind = "returned"
        /\ IsTransactionData(Val(ptOut.data))

\* The validator failed on output that parsed, and the call still returned.
C1_Witness ==
    /\ ptPc = "done"
    /\ parsed.ok
    /\ ValidatorThrows(Val(parsed.json))
    /\ ptOut.kind = "returned"

\* C5: when the provider stage fails or no credential is configured,
\* processTransaction(t, L) returns the mock record of language L: its
\* language field is L and its currency is the one mapped to L.
C5_FallbackTotality ==
    (ptPc = "done" /\ ptOut.via \in MockVias) =>
        /\ Val(ptOut.data).language = language
        /\ Val(ptOut.data).currency = getCurrencyForLanguage(language)

\* The sum the validator must arrive at, taken from the raw items: an item
\* whose total is missing or zero counts quantity * unitPrice.
RECURSIVE RepairedSumOfRaw(_)
RepairedSumOfRaw(rawItems) ==
    IF rawItems = <<>> THEN 0
    ELSE (IF Has(rawItems[1].total) /\ Val(rawItems[1].total) /= 0
          THEN Val(rawItems[1].total)
          ELSE rawItems[1].quantity * rawItems[1].unitPrice)
         + RepairedSumOfRaw(Tail(rawItems))

Validated == ptPc = "done" /\ ptOut.via = "validated"

\* C6: grand-total reconciliation: in every validated record, if the sum of
\* the repaired item totals is greater than 0 then the grand total differs
\* from it by at most 0.01; the sum is taken after item repair.
C6_GrandTotalReconciled ==
    Validated =>
        LET d == Val(ptOut.data)
            s == RepairedSumOfRaw(Val(parsed.json).items)
        IN  /\ SumTotals(d.items) = s
            /\ s > 0 => Abs(d.total - s) <= 1

\* The reported total was off by more than 0.01 and an item had no total.
C6_Witness ==
    /\ Validated
    /\ LET raw == Val(parsed.json)
           s == RepairedSumOfRaw(raw.items)
       IN  /\ s > 0
           /\ Abs(OrNum(raw.total, 0) - s) > 1
           /\ \E i \in 1..Len(raw.items) : ~Has(raw.items[i].total)

\* C7: item repair: an item whose raw total is missing or zero gets
\* total = quantity * unitPrice; a supplied non-zero total is kept.
C7_ItemRepair ==
    Validated =>
        LET d == Val(ptOut.data)
            raw == Val(parsed.json)
        IN  /\ Len(d.items) = Len(raw.items)
            /\ \A i \in 1..Len(raw.items) :
                LET r == raw.items[i]
                    supplied == Has(r.total) /\ Val(r.total) /= 0
                IN  /\ ~supplied => d.items[i].total = r.quantity * r.unitPrice
                    /\ supplied => d.items[i].total = Val(r.total)

\* One item was repaired and another kept a total that is not q * u.
C7_Witness ==
    /\ Validated
    /\ LET raw == Val(parsed.json)
       IN  /\ \E i \in 1..Len(raw.items) :
                ~Has(raw.items[i].total) /\ raw.items[i].quantity * raw.items[i].unitPrice > 0
           /\ \E i \in 1..Len(raw.items) :
                /\ Has(raw.items[i].total)
                /\ Val(raw.items[i].total) /= 0
                /\ Val(raw.items[i].total) /= raw.items[i].quantity * raw.items[i].unitPrice

\* C8 as stated: every item of every returned TransactionData satisfies
\* total == quantity * unitPrice.
C8_ItemInvariant ==
    (ptPc = "done" /\ ptOut.kind = "returned") =>
        \A i \in 1..Len(Val(ptOut.data).items) :
            LET it == Val(ptOut.data).items[i]
            IN  it.total = it.quantity * it.unitPrice

\* C8 amended: every item of a returned TransactionData satisfies
\* total == quantity * unitPrice, except an item of validated provider output
\* for which the provider supplied a non-zero total: that total is kept.
C8_ItemInvariantAmended ==
    (ptPc = "done" /\ ptOut.kind = "returned") =>
        \A i \in 1..Len(Val(ptOut.data).items) :
            LET it == Val(ptOut.data).items[i]
            IN  \/ it.total = it.quantity * it.unitPrice
                \/ /\ ptOut.via = "validated"
                   /\ Val(parsed.json).items[i].total = Some(it.total)
                   /\ it.total /= 0

\* A validated record holds an item that was repaired.
C8_Witness ==
    /\ Validated
    /\ \E i \in 1..Len(Val(parsed.json).items) :
        /\ ~Has(Val(parsed.json).items[i].total)
        /\ Val(ptOut.data).items[i].total > 0

\* C9: one invocation of callOpenAIWithRetry makes at most 3 provider calls,
\* attempt k+1 only after attempt k raised; it stops at the first success and
\* returns that attempt's result; it raises only when the third attempt has
\* raised, and then with the third attempt's error.
C9_RetryBound ==
    LET n == Len(attemptLog)
    IN  /\ n <= 3
        /\ \A i \in 1..n : attemptLog[i].attempt = i
        /\ \A i \in 1..n : i < n => ~attemptLog[i].ok
        /\ (n > 0 /\ attemptLog[n].ok) =>
            /\ retryOut.kind = "returned"
            /\ retryOut.data = attemptLog[n].answer
            /\ ptPc = "done"
        /\ retryOut.kind = "returned" => (n > 0 /\ attemptLog[n].ok)
        /\ retryOut.kind = "thrown" =>
            /\ n = 3
            /\ ~attemptLog[3].ok
            /\ retryOut.err = 3
        /\ (n = 3 /\ ~attemptLog[3].ok) => retryOut.kind = "thrown"
        /\ (n < 3 /\ ptPc = "done" /\ apiKey) => retryOut.kind = "returned"

\* Three attempts were made and the third raised.
C9_Witness ==
    /\ Len(attemptLog) = 3
    /\ retryOut.kind = "thrown"
    /\ retryOut.err = 3

RECURSIVE TotalBackoff(_)
\* the seconds one invocation of callOpenAIWithRetry has spent in backoff
TotalBackoff(ws) == IF ws = <<>> THEN 0 ELSE Head(ws) + TotalBackoff(Tail(ws))

\* C22: the backoff schedule.  A wait is started exactly after each failed
\* attempt k < 3, it lasts 2^k seconds (2, then 4) and attempt k+1 starts only
\* after it; there is no wait before attempt 1, after a successful attempt or
\* after the failure of attempt 3, so one invocation waits at most 6 seconds.
C22_BackoffSchedule ==
    LET failedEarly == {i \in 1..Len(attemptLog) :
                           ~attemptLog[i].ok /\ attemptLog[i].attempt < 3}
    IN  /\ Len(waits) = Cardinality(failedEarly)
        /\ \A k \in 1..Len(waits) :
               /\ waits[k] = 2 ^ k
               /\ attemptLog[k].attempt = k
               /\ ~attemptLog[k].ok
        /\ ptPc = "attempt" => Len(waits) = attempt - 1
        /\ ptPc = "backoff" => Len(waits) = attempt
        /\ retryOut.kind = "returned" => Len(waits) = Len(attemptLog) - 1
        /\ retryOut.kind = "thrown" => waits = <<2, 4>>
        /\ TotalBackoff(waits) <= 6

\* Three attempts failed: the waits were 2 s and 4 s and none followed the
\* third failure.
C22_Witness ==
    /\ ptPc = "done"
    /\ Len(attemptLog) = 3
    /\ ~attemptLog[3].ok
    /\ waits = <<2, 4>>

\* processTransaction has returned a TransactionData record.
ExtractionReturned ==
    /\ ptPc = "done"
    /\ ptOut.kind = "returned"
    /\ IsTransactionData(Val(ptOut.data))

\* C29: extraction terminates.  When every provider call settles, every
\* invocation of processTransaction eventually returns a TransactionData,
\* after at most 3 provider calls and at most two backoff waits.
C29_ExtractionTerminates ==
    /\ (ptPc /= "idle") ~> ExtractionReturned
    /\ [](Len(attemptLog) <= 3 /\ Len(waits) <= 2)

\* The invocation returned after two failed provider calls, two waits and a
\* third call that answered.
C29_Witness ==
    /\ ExtractionReturned
    /\ Len(attemptLog) = 3
    /\ attemptLog[3].ok
    /\ Len(waits) = 2

\* The provider supplied no value under `field` of metadata: there is no
\* metadata, or it lacks the key, or the key holds null.
MetadataValueMissing(raw, field) ==
    \/ ~Has(raw.metadata)
    \/ ~Val(raw.metadata)[field].key
    \/ ~Has(Val(raw.metadata)[field].v)

\* C13: the validated record has every optional field present: items is a
\* sequence (empty when absent), customer a record (empty when absent),
\* paymentTerms is 'immediate' and businessType 'general' when absent,
\* metadata.extractedEntities is a sequence (empty when absent), and
\* metadata.confidence is 0.85 whenever the provider supplied no confidence
\* value.
C13_ValidatorDefaults ==
    Validated =>
        LET raw == Val(parsed.json)
            d == Val(ptOut.data)
        IN  /\ d.items \in Seq([name : STRING, quantity : Int, unitPrice : Int, total : Int])
            /\ raw.itemsKind = "absent" => d.items = <<>>
            /\ Has(d.customer)
            /\ ~Has(raw.customer) => Val(d.customer) = EmptyCustomer
            /\ ~Has(raw.paymentTerms) => d.paymentTerms = "immediate"
            /\ ~Has(raw.businessType) => d.businessType = "general"
            /\ Has(d.metadata.extractedEntities)
            /\ MetadataValueMissing(raw, "extractedEntities") =>
                    d.metadata.extractedEntities = Some(<<>>)
            /\ MetadataValueMissing(raw, "confidence") =>
                    d.metadata.confidence = Some(DefaultConfidence)

\* C14: the currency of a validated record is the one code mapped to the
\* language of the call, whatever the provider record holds.
C14_CurrencyByLanguage ==
    Validated => Val(ptOut.data).currency = getCurrencyForLanguage(language)

(***************************************************************************)
(* Properties of POST /api/voice/process (checked under SpecRoute).        *)
(***************************************************************************)
\* C10: when the extraction has not settled when the processing timeout
\* elapses, the caller receives HTTP 408 tagged retryable; exactly one
\* response is sent for the request; a result the abandoned extraction
\* produces later never reaches the caller and triggers no second response.
C10_TimeoutSurfaced ==
    /\ Len(responses) <= 1
    /\ rPc = "responded" <=> Len(responses) = 1
    /\ procTimer = "wonRace" =>
        responses = << Response(408, Some(TRUE), Absent) >>

\* The processing timer won the race and the extraction returned afterwards.
C10_Witness ==
    /\ procTimer = "wonRace"
    /\ ptPc = "done"
    /\ ptOut.via = "validated"
    /\ Len(responses) = 1

\* C11: once the processing timeout has elapsed (the timer won the race),
\* callOpenAIWithRetry starts no new provider attempt and no new backoff wait
\* for that request.
C11_TimeoutAbandonsRetries ==
    [][procTimer = "wonRace" =>
          /\ attempt' = attempt
          /\ Len(waits') = Len(waits)]_vars

\* C21: transcription failure propagates.  When a credential is configured
\* and the speech-to-text request raised, transcribeAudio fails and the error
\* reaches the handler: no transcript exists and the request is answered with
\* a retryable error.  The sample transcript is returned only when no
\* credential is configured.
C21_TranscriptionFailurePropagates ==
    /\ (Has(stt) /\ Val(stt).kind = "raises") =>
           /\ transcript = Absent
           /\ rPc = "responded"
           /\ responses[Len(responses)].status >= 400
           /\ responses[Len(responses)].retryable = Some(TRUE)
    /\ (Has(transcript) /\ Val(transcript) = getMockTranscription(language)) => ~apiKey

(***************************************************************************)
(* Properties of SeaLionService (checked under SpecCache).                 *)
(***************************************************************************)
\* The calls the state shows: those in flight and the one that just settled.
ShownCalls == {calls[c] : c \in {x \in CallSlots : calls[x].pc /= "idle"}} \cup
              (IF lastDone.pc = "done" THEN {lastDone} ELSE {})

\* C2: processVoiceTransaction never throws: whatever the regional and the
\* general-purpose model do, the call returns a TransactionData record.
C2_NeverThrows ==
    lastDone.pc = "done" => lastDone.out.kind = "returned"

\* C3 as stated: once a call for (language, transcript) has returned a
\* result, a call with the same arguments made less than TTL after it returns
\* the identical data and invokes neither model.
C3_CacheIdempotence ==
    \A r \in ShownCalls :
        r.prior /= {} =>
            /\ r.pc = "done"
            /\ r.out.kind = "returned"
            /\ \A d \in r.prior : Val(r.out.data) = d
            /\ r.sealionCalls = 0
            /\ r.gpt4Calls = 0

\* C3 amended: once a call has stored its result under the cache key at time
\* t, every call with the same key made before t + TTL invokes neither model
\* and returns the data of the latest store under that key (the first call's
\* own result unless an overlapping call with the same key stored after it).
C3_CacheIdempotenceAmended ==
    \A r \in ShownCalls :
        Has(r.freshStore) =>
            /\ r.pc = "done"
            /\ r.hit
            /\ r.out = Returned(Val(r.freshStore), "cache")
            /\ r.sealionCalls = 0
            /\ r.gpt4Calls = 0

\* A call hit an entry in the last tick of its life, after an earlier call
\* with the same arguments had returned.
C3_Witness ==
    /\ lastDone.pc = "done"
    /\ lastDone.hit
    /\ lastDone.prior /= {}
    /\ lastDone.startedAt - Val(lastDone.found).timestamp = CACHE_DURATION - 1

\* An entry found at age >= TTL is a miss: both models are invoked and the
\* entry is gone from the map.
C4_ExpiredIsMiss ==
    \A r \in ShownCalls :
        (Has(r.found) /\ r.startedAt - Val(r.found).timestamp >= CACHE_DURATION) =>
            /\ ~r.hit
            /\ r.sealionCalls = 1
            /\ r.gpt4Calls = 1
            /\ ~(r.key \in DOMAIN cache /\ cache[r.key] = Val(r.found))

\* A call that returns the provider's result leaves a fresh entry under its
\* key: the data it returns, stamped with the current time.
C4_FreshEntryStored ==
    ((\E c \in CallSlots : calls[c].pc = "gpt4" /\ calls'[c].pc = "idle")
        /\ lastDone'.out.kind = "returned") =>
        /\ lastDone'.key \in DOMAIN cache'
        /\ cache'[lastDone'.key] = [data |-> Val(lastDone'.out.data), timestamp |-> now']

PutMade ==
    /\ \E c \in CallSlots : calls[c].pc = "gpt4" /\ calls'[c].pc = "idle"
    /\ lastDone'.out.kind = "returned"

\* The map as the put's cache.set leaves it, before any sweep.
AfterSet ==
    MapPut(cache, lastDone'.key, [data |-> Val(lastDone'.out.data), timestamp |-> now])

\* C23: the cache sweep.  A put that leaves more entries than the threshold
\* removes every expired entry, an entry being expired when its age is at
\* least TTL, so that no entry of age >= TTL remains right after it; a put
\* that leaves no more entries than the threshold removes nothing.
C23_CacheSweep ==
    [][PutMade =>
          IF Cardinality(DOMAIN AfterSet) > CacheSweepThreshold
          THEN /\ \A k \in DOMAIN cache' : now' - cache'[k].timestamp < CACHE_DURATION
               /\ cache' = MapRemove(AfterSet,
                               {k \in DOMAIN AfterSet :
                                    now - AfterSet[k].timestamp >= CACHE_DURATION})
          ELSE cache' = AfterSet]_vars

RECURSIVE SumPresentTotals(_)
\* the sum of the item totals of a record as JSON.parse delivers it
SumPresentTotals(items) ==
    IF items = <<>> THEN 0
    ELSE OrNum(items[1].total, 0) + SumPresentTotals(Tail(items))

\* What validateAndEnhanceTransactionData guarantees of its result, read off
\* a record in the shape the provider's JSON has: the optional fields are
\* filled in, every item has its total, and the grand total is within 0.01
\* of a positive item sum.
ValidatorPostconditions(d) ==
    /\ d.itemsKind = "array"
    /\ \A i \in 1..Len(d.items) : Has(d.items[i].total)
    /\ Has(d.customer)
    /\ OrStr(d.currency, "") /= ""
    /\ OrStr(d.paymentTerms, "") /= ""
    /\ OrStr(d.businessType, "") /= ""
    /\ Has(d.metadata)
    /\ Has(d.total)
    /\ SumPresentTotals(d.items) > 0 =>
           Abs(Val(d.total) - SumPresentTotals(d.items)) <= 1

\* C24: the cache only ever holds validated TransactionData: every entry
\* satisfies the validator's postconditions, and so does the record a cache
\* hit returns.
C24_CacheHoldsValidated ==
    /\ \A k \in DOMAIN cache : ValidatorPostconditions(cache[k].data)
    /\ (lastDone.pc = "done" /\ lastDone.hit) =>
           ValidatorPostconditions(Val(lastDone.out.data))

\* A call without a store under its key in the TTL before its lookup is a
\* miss and runs the provider chain.
NoFreshStoreIsMiss ==
    \A r \in ShownCalls :
        ~Has(r.freshStore) =>
            /\ ~r.hit
            /\ r.sealionCalls = 1
            /\ r.gpt4Calls = 1

\* The step in which a call raises leaves the cache as it is; the lookup of
\* a call that goes on to the provider changes the cache only by deleting an
\* expired entry under the looked-up key, and leaves no entry under it.
FailureWritesNothing ==
    /\ ((\E c \in CallSlots : calls[c].pc = "gpt4" /\ calls'[c].pc = "idle")
            /\ lastDone'.out.kind = "thrown") => cache' = cache
    /\ \A c \in CallSlots :
           (calls[c].pc = "idle" /\ calls'[c].pc = "gpt4") =>
               LET k == calls'[c].key
               IN  /\ k \notin DOMAIN cache'
                   /\ cache' = IF k \in DOMAIN cache /\ now - cache[k].timestamp >= CACHE_DURATION
                               THEN MapRemove(cache, {k})
                               ELSE cache

\* C26: a failed extraction writes nothing to the cache.  A call that raises
\* changes the cache only by the deletion of an expired entry under the key
\* it looked up, so a later call with the same key, unless another call
\* stored under the key in between, invokes the provider chain again.
C26_FailedExtractionWritesNothing ==
    []NoFreshStoreIsMiss /\ [][FailureWritesNothing]_vars

\* A call found an expired entry under its key, ran the chain and raised; the
\* key is not in the map.
C26_Witness ==
    /\ lastDone.pc = "done"
    /\ lastDone.out.kind = "thrown"
    /\ Has(lastDone.found)
    /\ lastDone.startedAt - Val(lastDone.found).timestamp >= CACHE_DURATION
    /\ lastDone.key \notin DOMAIN cache

\* A hit is served only from a put made under the key less than TTL before
\* the lookup, and it returns what that put stored.
HitWithinTTLOfPut ==
    \A r \in ShownCalls :
        r.hit =>
            /\ Has(r.freshStore)
            /\ Has(r.found)
            /\ r.startedAt - Val(r.found).timestamp < CACHE_DURATION
            /\ Val(r.out.data) = Val(r.freshStore)

\* A step in which a call hits leaves the whole map unchanged, and the entry
\* under a key changes only by a put under that key, which stamps it now.
HitsDoNotRefresh ==
    /\ (lastDone'.pc = "done" /\ lastDone'.hit) => cache' = cache
    /\ \A k \in DOMAIN cache' :
           (k \notin DOMAIN cache \/ cache'[k] /= cache[k]) =>
               /\ PutMade
               /\ lastDone'.key = k
               /\ cache'[k].timestamp = now'

\* C27: no sliding expiry.  A cache hit leaves the entry's timestamp and data
\* unchanged, so an entry stored at time t is a miss for every lookup at time
\* >= t + TTL however many hits it served; only a put under the same key
\* resets the timestamp.
C27_NoSlidingExpiry ==
    []HitWithinTTLOfPut /\ [][HitsDoNotRefresh]_vars

\* An entry served a hit and was then looked up at age exactly TTL: the
\* lookup missed and the call went on to the provider.
C27_Witness ==
    \E c \in CallSlots :
        /\ calls[c].pc = "gpt4"
        /\ Has(calls[c].found)
        /\ calls[c].startedAt - Val(calls[c].found).timestamp = CACHE_DURATION
        /\ \E r \in returnsLog :
               /\ r.lang = calls[c].lang
               /\ r.tr = calls[c].tr
               /\ r.at > Val(calls[c].found).timestamp
               /\ r.at < calls[c].startedAt

\* Two calls with the same key that await the provider at the same time have
\* each run the chain: neither was answered from the other's request.
NoDeduplication ==
    \A a, b \in CallSlots :
        (a /= b /\ calls[a].pc = "gpt4" /\ calls[b].pc = "gpt4"
              /\ calls[a].key = calls[b].key) =>
            /\ ~calls[a].hit /\ calls[a].sealionCalls = 1 /\ calls[a].gpt4Calls = 1
            /\ ~calls[b].hit /\ calls[b].sealionCalls = 1 /\ calls[b].gpt4Calls = 1

\* The later of two overlapping calls with the same key has just settled.
OverlapSettled == lastDone.pc = "done" /\ Has(lastDone.peer)

ProviderOutputValidated ==
    /\ parsed.ok
    /\ ~ValidatorThrows(Val(parsed.json))

\* The general-purpose stage of processTransaction failed: every attempt
\* raised, or the completion was empty, or it did not parse, or the validator
\* raised on what it parsed to.
ProviderStageFailed ==
    \/ retryOut.kind = "thrown" /\ Len(attemptLog) = maxRetries
    \/ /\ retryOut.kind = "returned"
       /\ \/ Val(retryOut.data).kind \in {"empty", "malformed"}
          \/ parsed.ok /\ ValidatorThrows(Val(parsed.json))

\* C12: a later stage is attempted only after the previous one has raised.
\* processVoiceTransaction calls the general-purpose model only in a call
\* that missed the cache and whose regional-model attempt was made (and
\* raised); processTransaction returns the mock record only without a
\* credential or after the provider stage failed, and returns the validated
\* provider output whenever the output parsed and validated.
C12_FallbackPrecedence ==
    /\ \A r \in ShownCalls :
          r.gpt4Calls > 0 => (r.sealionCalls > 0 /\ ~r.hit)
    /\ ptPc = "done" =>
          /\ ptOut.via \in MockVias => (~apiKey \/ ProviderStageFailed)
          /\ ProviderOutputValidated =>
                ptOut = Returned(validateAndEnhanceTransactionData(Val(parsed.json), language),
                                 "validated")
          /\ ~apiKey => attemptLog = <<>>

\* All three attempts raised and the mock record was returned.
C12_Witness ==
    /\ ptPc = "done"
    /\ ptOut.via = "mock:error"
    /\ Len(attemptLog) = maxRetries
    /\ \A i \in 1..Len(attemptLog) : ~attemptLog[i].ok

(***************************************************************************)
(* Properties of InvoiceService (checked under SpecInvoice).               *)
(***************************************************************************)
\* A generateInvoice call has just returned its InvoiceData.
InvoiceReturned == invDone.pc = "done" /\ invDone.out.kind = "returned"

ReturnedInvoice == Val(invDone.out.data)

\* The transaction carries a non-empty due-date hint.
HasHint == Has(invTd.dueDate) /\ Val(invTd.dueDate) /= <<>>

\* C15: the returned InvoiceData has a dueDate if and only if the transaction
\* has paymentTerms 'later' and a non-empty dueDate hint.
C15_DueDatePresence ==
    InvoiceReturned =>
        (Has(ReturnedInvoice.dueDate) <=> (invTd.paymentTerms = Some("later") /\ HasHint))

\* An invoice was returned without a due date although the transaction has
\* a hint: its payment terms are not 'later'.
C15_Witness ==
    /\ InvoiceReturned
    /\ HasHint
    /\ invTd.paymentTerms = Some("immediate")
    /\ ~Has(ReturnedInvoice.dueDate)

RECURSIVE DaysBeforeMonth(_, _)
DaysBeforeMonth(y, m) == IF m = 1 THEN 0 ELSE DaysBeforeMonth(y, m - 1) + DaysIn(y, m - 1)

RECURSIVE DaysBeforeYear(_)
DaysBeforeYear(y) ==
    IF y <= 2024 THEN 0
    ELSE DaysBeforeYear(y - 1) + (IF IsLeap(y - 1) THEN 366 ELSE 365)

\* The number of a day, counted from 1 January 2024.
DayNumber(date) == DaysBeforeYear(date.y) + DaysBeforeMonth(date.y, date.m) + date.d

FirstOfNextMonth(date) ==
    IF date.m = 12 THEN MkDate(date.y + 1, 1, 1) ELSE MkDate(date.y, date.m + 1, 1)

ThreeLevelBusiness(businessType, lang) ==
    IF businessType \in DOMAIN templates
    THEN IF lang \in DOMAIN templates[businessType] THEN templates[businessType][lang]
         ELSE IF "en" \in DOMAIN templates[businessType] THEN templates[businessType]["en"]
         ELSE GenericBusiness
    ELSE GenericBusiness

\* C17: generateInvoice resolves the business identity from the
\* (businessType, language) template, else from the (businessType, 'en')
\* template, and only if that is absent too from the generic identity.
C17_ThreeLevelTemplateFallback ==
    InvoiceReturned =>
        ReturnedInvoice.business = ThreeLevelBusiness(BusinessTypeArg(invBt), invTd.language)

IsDefinedString(x) == x \in STRING /\ x /= ""

\* C18: for every businessType and supported language the business record
\* of the invoice has name, address, phone and email defined, and an unknown
\* businessType yields the generic identity.
C18_BusinessIdentityTotal ==
    InvoiceReturned =>
        LET b == ReturnedInvoice.business
        IN  /\ DOMAIN b = {"name", "address", "phone", "email"}
            /\ \A f \in DOMAIN b : IsDefinedString(b[f])
            /\ BusinessTypeArg(invBt) \notin DOMAIN templates => b = GenericBusiness
            /\ b.name = "VoiceFlow Business" => b = GenericBusiness

\* An invoice for a business type without templates, in Thai.
C18_Witness ==
    /\ InvoiceReturned
    /\ invBt = Some("kiosk")
    /\ invTd.language = "th"
    /\ ReturnedInvoice.business.name = "VoiceFlow Business"

\* The fields of InvoiceData.
IsInvoiceData(inv) ==
    /\ DOMAIN inv = {"invoiceNumber", "date", "dueDate", "business", "customer", "items",
                     "subtotal", "total", "currency", "paymentTerms", "qrCode", "template",
                     "language"}
    /\ inv.invoiceNumber /= <<>>
    /\ DOMAIN inv.date = {"y", "m", "d"}
    /\ DOMAIN inv.business = {"name", "address", "phone", "email"}
    /\ Has(inv.qrCode)
    /\ inv.template /= ""
    /\ inv.paymentTerms /= ""

\* C19: if building the payload or encoding the image fails inside
\* generatePaymentQR, the call of generateInvoice still returns a complete
\* InvoiceData, with qrCode the empty string; it does not raise.
C19_QRDegradation ==
    (invDone.pc = "done" /\ ~Has(invDone.encoded)) =>
        /\ invDone.out.kind = "returned"
        /\ IsInvoiceData(ReturnedInvoice)
        /\ ReturnedInvoice = [invDone.invoice EXCEPT !.qrCode = Some("")]

\* The payload was built and the encoder failed; the invoice was returned.
C19_Witness ==
    /\ InvoiceReturned
    /\ Has(invDone.payload)
    /\ ~Has(invDone.encoded)
    /\ ReturnedInvoice.qrCode = Some("")

\* C20 as stated: any two generateInvoice calls yield different invoice
\* numbers.
C20_InvoiceNumbersUnique ==
    \A i, j \in 1..Len(issued) : i /= j => issued[i].number /= issued[j].number

\* C20 amended: an invoice number is 'VF', the last 8 digits of the
\* millisecond timestamp and the random suffix (one of 00..98) padded to 2
\* digits; two calls yield the same number exactly if their timestamps agree
\* in the last 8 digits and their suffixes are equal.
C20_InvoiceNumbersAmended ==
    /\ \A i \in 1..Len(issued) :
        LET n == issued[i].number
        IN  /\ Len(n) = 11
            /\ n[1] = "VF"
            /\ \A k \in 2..11 : n[k] \in 0..9
            /\ issued[i].random \in RandomSuffixes
    /\ \A i, j \in 1..Len(issued) :
        issued[i].number = issued[j].number <=>
            /\ issued[i].timestamp % 100000000 = issued[j].timestamp % 100000000
            /\ issued[i].random = issued[j].random

\* Two calls in the same millisecond got different numbers from their
\* suffixes alone.
C20_Witness ==
    /\ Len(issued) = 2
    /\ issued[1].timestamp = issued[2].timestamp
    /\ issued[1].random /= issued[2].random
    /\ issued[1].number /= issued[2].number

\* The generateInvoice calls whose payload synthesis can be seen: those
\* awaiting the encoder and the one that has just returned.
ShownInvoiceCalls ==
    {invPending[c] : c \in {x \in InvSlots : invPending[x].pc /= "idle"}} \cup
    (IF invDone.pc = "done" THEN {invDone} ELSE {})

\* C25: payment payload determinism.  The payload generatePaymentQR builds is
\* a function of the transaction's currency and total only: two runs on the
\* same TransactionData, at whatever times, build the same payload.
C25_PayloadDeterminism ==
    \A a, b \in ShownInvoiceCalls : a.payload = b.payload

(***************************************************************************)
(* Properties of the rate limiter (checked under SpecLimiter)              *)
(***************************************************************************)
\* The requests of key k, among the first i, recorded in the window of
\* length rlWindowMs that ends with request i (request i included).
RecordedInWindow(k, i) ==
    {j \in 1..i : rlHistory[k][j].at > rlHistory[k][i].at - rlWindowMs}

\* The requests of key k admitted at the times s < t <= s + rlWindowMs.
AdmittedAfter(k, s) ==
    {j \in 1..Len(rlHistory[k]) :
        /\ rlHistory[k][j].admitted
        /\ rlHistory[k][j].at > s
        /\ rlHistory[k][j].at <= s + rlWindowMs}

\* The requests of key k admitted at the times s <= t <= s + rlWindowMs.
AdmittedFrom(k, s) ==
    {j \in 1..Len(rlHistory[k]) :
        /\ rlHistory[k][j].admitted
        /\ rlHistory[k][j].at >= s
        /\ rlHistory[k][j].at <= s + rlWindowMs}

\* A request is rejected with 429 exactly when the requests recorded for its
\* key in the last rlWindowMs, itself included, exceed rlMax; rejected
\* requests are recorded like admitted ones, so the store of a key holds the
\* times of all its requests in the window of the latest one.
RejectedExactlyWhenOver ==
    /\ \A k \in DOMAIN rlHistory :
           LET h == rlHistory[k]
               n == Len(h)
               m == Cardinality(RecordedInWindow(k, n))
           IN  /\ \A i \in 1..n :
                      h[i].admitted <=> Cardinality(RecordedInWindow(k, i)) <= rlMax
               /\ k \in DOMAIN rlStore
               /\ rlStore[k] = [x \in 1..m |-> h[n - m + x].at]
    /\ rlLast.key /= <<>> =>
           LET h == rlHistory[rlLast.key]
           IN  /\ h[Len(h)].at = rlLast.at
               /\ rlLast.status = IF h[Len(h)].admitted THEN 0 ELSE 429

\* C30 as stated: the rate limiter bound.  For every key and every time
\* window of length rlWindowMs, from any instant s to s + rlWindowMs, at most
\* rlMax requests are admitted; a request is rejected with 429 exactly when
\* the requests recorded for its key in the last rlWindowMs, itself included,
\* exceed rlMax, and rejected requests are recorded too.
C30_RateLimiterBound ==
    /\ \A k \in DOMAIN rlHistory :
           \A s \in (0 - rlWindowMs)..MaxLimiterTime :
               Cardinality(AdmittedFrom(k, s)) <= rlMax
    /\ RejectedExactlyWhenOver

\* C30 amended: the bound holds for the windows that are open at their
\* start: for every key and every instant s at most rlMax requests are
\* admitted at the times t with s < t <= s + rlWindowMs (a request made
\* exactly rlWindowMs before another is no longer counted against it).
C30_RateLimiterBoundAmended ==
    /\ \A k \in DOMAIN rlHistory :
           \A s \in (0 - rlWindowMs)..MaxLimiterTime :
               Cardinality(AdmittedAfter(k, s)) <= rlMax
    /\ RejectedExactlyWhenOver

\* A request was rejected although fewer than rlMax requests had been
\* admitted in its window: the rejected ones before it counted.
C30_Witness ==
    \E k \in DOMAIN rlHistory :
        \E i \in 1..Len(rlHistory[k]) :
            /\ ~rlHistory[k][i].admitted
            /\ Cardinality({j \in RecordedInWindow(k, i) :
                                rlHistory[k][j].admitted}) < rlMax

====
